---- MODULE Spec2Model ----
(***************************************************************************)
(* Delivery queue of the AMP SDK: BatchProcessor (packages/core/src/       *)
(* batcher.js) and the retry helper (packages/core/src/utils/index.js).    *)
(* One BatchProcessor instance, its transport and the application calling  *)
(* enqueue / flush / shutdown on the single-threaded event loop.  Every    *)
(* action is one synchronous section between two suspension points.        *)
(***************************************************************************)
EXTENDS Integers, Sequences, FiniteSets, TLC

\* ---- bounds of the model -------------------------------------------------
MaxRecords == 3        \* records the application offers to enqueue
MaxFailures == 4       \* POSTs the transport may reject in one behaviour
MaxBatchSize == 2      \* config.batchSize is 0 (left out) or in 1..MaxBatchSize
MaxRetriesCfg == 1     \* config.maxRetries is drawn from 0..MaxRetriesCfg
MaxInstances == 3      \* BatchProcessor instances constructed in one process
MaxSpans == 3          \* spans created under the trace
MaxClock == 2          \* now() takes the values 1..MaxClock
MaxRedraws == 2        \* all-zero draws in a row the random source may give
MaxTokens == 2         \* token counts passed to setTokens are in 0..MaxTokens
MaxDocs == 2           \* documents passed to setRetrievedContext
MaxEvents == 1         \* events added to the span

\* ---- program constants ---------------------------------------------------
DEFAULT_BATCH_SIZE == 100
DEFAULT_MAX_RETRIES == 3
BaseDelay == 500

VARIABLES
    queue,          \* this.queue: records awaiting transmission
    timer,          \* this.timer # null: a batch timer is pending
    isFlushing,     \* this.isFlushing
    isShutdown,     \* this.isShutdown
    cfgBatchSize,   \* config.batchSize as passed to the constructor
    cfgMaxRetries,  \* config.maxRetries as passed to the constructor
    flights,        \* flush() calls suspended in sendBatch/retry
    delivered,      \* batches whose POST succeeded, in order of success
    nextRec,        \* next record the application will offer
    accepted,       \* records enqueue accepted, in order
    posts,          \* httpClient.post calls made so far
    failures,       \* httpClient.post calls rejected so far
    unhandled,      \* rejected promises nobody attached a handler to
    shutdownPc,     \* position of the latest shutdown() call
    lastCall,       \* observation of the latest flush() invocation
    lastResult,     \* observation of the latest settled transmission
    lastApp,        \* latest call made by the application
    lastEnq,        \* observation of the latest accepted enqueue
    carried,        \* records requeued by a failure or enqueued in flight
    onlyEnq,        \* TRUE while nothing but enqueue calls has happened
    timeouts,       \* setTimeout callbacks pending, named by arming record
    handle          \* the timeout this.timer refers to (0: null)

\* process-exit hooks of the BatchProcessor instances of one process
VARIABLES
    procs,          \* instances constructed so far, in construction order
    listeners,      \* process.on listeners per event, in registration order
    process,        \* "running" or "exited"
    lastEvent       \* observation of the latest beforeExit / signal event

\* one Trace and the Spans created under it
VARIABLES
    traceEnded,     \* Trace._ended
    traceStatus,    \* Trace._status
    traceEndTime,   \* Trace._endTime (0: undefined)
    traceSpans,     \* Trace._spans: ids of the registered spans
    traceOnEnd,     \* Trace._onEnd is set (trace made by AMP.trace)
    spanObjs,       \* the Span objects created so far, by creation order
    clock,          \* what now() returns
    handoffs,       \* times the on-end callback called batcher.enqueue
    traceExplicit,  \* setOk / setError was called on the trace
    lastOp          \* observation of the latest Trace / Span call

\* the id generators and the attribute setters of one Span
VARIABLES
    lastId,         \* observation of the latest generateTraceId / SpanId call
    attributes,     \* Span._attributes
    attrStatus,     \* Span._status of that span
    events,         \* Span._events of that span
    lastSet         \* observation of the latest setter call on that span

batchVars == <<queue, timer, isFlushing, isShutdown, cfgBatchSize, cfgMaxRetries,
          flights, delivered, nextRec, accepted, posts, failures, unhandled,
          shutdownPc, lastCall, lastResult, lastApp, lastEnq, carried,
          onlyEnq, timeouts, handle>>

exitVars == <<procs, listeners, process, lastEvent>>

traceVars == <<traceEnded, traceStatus, traceEndTime, traceSpans, traceOnEnd,
               spanObjs, clock, handoffs, traceExplicit, lastOp>>

utilVars == <<lastId, attributes, attrStatus, events, lastSet>>

vars == <<batchVars, exitVars, traceVars, utilVars>>

\* ---- helpers -------------------------------------------------------------
Range(s) == {s[i] : i \in DOMAIN s}

RECURSIVE Flatten(_)
Flatten(ss) == IF ss = <<>> THEN <<>> ELSE Head(ss) \o Flatten(Tail(ss))

RemoveAt(s, i) == SubSeq(s, 1, i - 1) \o SubSeq(s, i + 1, Len(s))

Occurrences(s, r) == Cardinality({i \in DOMAIN s : s[i] = r})

\* ---- constructor (batcher.js 57-64) --------------------------------------
EffBatchSize(cfg) == IF cfg = 0 THEN DEFAULT_BATCH_SIZE ELSE cfg

EffMaxRetries(cfg) == IF cfg = 0 THEN DEFAULT_MAX_RETRIES ELSE cfg

batchSize == EffBatchSize(cfgBatchSize)

maxRetries == EffMaxRetries(cfgMaxRetries)

\* ---- enqueue / flush pieces ----------------------------------------------
ReachedBatchSizeStrict(q) == Len(q) > batchSize

ReachedBatchSizeOffByOne(q) == Len(q) >= batchSize + 1

ReachedBatchSize(q) == Len(q) >= batchSize

FlushSkipsNoGuard(q, flushing) == Len(q) = 0

FlushSkips(q, flushing) == Len(q) = 0 \/ flushing

TakeQueueKeep(q) == q

TakeQueue(q) == <<>>

RequeueDrop(traces, q) == q

RequeueBack(traces, q) == q \o traces

Requeue(traces, q) == traces \o q

\* the traces of the payload sendBatch built once, which every attempt of
\* retry posts (batcher.js 129, 132-134)
PostPayloadFromQueue(traces, q) == traces \o q

PostPayload(traces, q) == traces

\* this.isFlushing once flush() has settled with the given outcome: the
\* finally block resets it on both paths (batcher.js 121-123)
GuardAfterNoFinally(outcome) == outcome = "rejected"

GuardAfter(outcome) == FALSE

\* enqueue starts a timer only when none is pending (batcher.js 87-90)
ArmsTimerAlways(t) == TRUE

ArmsTimer(t) == ~t

\* clearTimeout(this.timer) (batcher.js 97-100, 150-153)
ClearTimeout(pending, h) == pending \ {h}

\* enqueue ignores the trace once the processor is shut down (batcher.js 76-79)
EnqueueDropsNever(shut) == FALSE

EnqueueDrops(shut) == shut

\* shutdown() settles after its final flush settled: the try/catch around
\* await this.flush() swallows a rejection (batcher.js 156-163)
ShutdownSettlesNoCatch(flushOutcome) ==
    IF flushOutcome = "rejected" THEN "rejected" ELSE "resolved"

ShutdownSettles(flushOutcome) == "resolved"

\* ---- retry (utils/index.js 125-140) --------------------------------------
ShouldRetryAlways(attempt, m) == TRUE

ShouldRetry(attempt, m) == attempt < m

BackoffDelayNext(attempt) == BaseDelay * (2 ^ (attempt + 1))

BackoffDelay(attempt) == BaseDelay * (2 ^ attempt)

NoCall == [caller |-> "none", busy |-> FALSE, ret |-> "none", newPosts |-> 0]

NoResult == [outcome |-> "none", caller |-> "none", traces |-> <<>>,
             during |-> <<>>, posted |-> 0, rejected |-> 0, delays |-> <<>>,
             queueAfter |-> <<>>]

NoEnq == [rec |-> 0, reached |-> FALSE, busy |-> FALSE, began |-> FALSE,
          batch |-> <<>>, sent |-> <<>>, queueAfter |-> <<>>,
          timerAfter |-> FALSE]

InitBatch ==
    /\ queue = <<>>
    /\ timer = FALSE
    /\ isFlushing = FALSE
    /\ isShutdown = FALSE
    /\ cfgBatchSize \in 0..MaxBatchSize
    /\ cfgMaxRetries \in 0..MaxRetriesCfg
    /\ flights = <<>>
    /\ delivered = <<>>
    /\ nextRec = 1
    /\ accepted = <<>>
    /\ posts = 0
    /\ failures = 0
    /\ unhandled = 0
    /\ shutdownPc = "idle"
    /\ lastCall = NoCall
    /\ lastResult = NoResult
    /\ lastApp = "none"
    /\ lastEnq = NoEnq
    /\ carried = {}
    /\ onlyEnq = TRUE
    /\ timeouts = {}
    /\ handle = 0

NoEvent == [event |-> "none", missed |-> {}]

\* no BatchProcessor constructed yet, no listener registered
InitExit ==
    /\ procs = <<>>
    /\ listeners = [beforeExit |-> <<>>, SIGINT |-> <<>>, SIGTERM |-> <<>>]
    /\ process = "running"
    /\ lastEvent = NoEvent

NoOp == [op |-> "none"]

\* new Trace(name, options) (trace.js 26-35); AMP.trace also registers the
\* on-end callback (client.ts 153-163)
InitTrace ==
    /\ traceEnded = FALSE
    /\ traceStatus = "unset"
    /\ traceEndTime = 0
    /\ traceSpans = <<>>
    /\ traceOnEnd \in BOOLEAN
    /\ spanObjs = <<>>
    /\ clock = 1
    /\ handoffs = 0
    /\ traceExplicit = FALSE
    /\ lastOp = NoOp

\* the parts a specification leaves alone stay in one fixed initial state
BatchIdle == InitBatch /\ cfgBatchSize = 1 /\ cfgMaxRetries = 0

TraceIdle == InitTrace /\ traceOnEnd = TRUE

NoId == [fn |-> "none", def |-> 0, id |-> <<>>, redraws |-> 0]

NoSet == [op |-> "none"]

\* no id generated yet; a new Span without options.attributes (span.js 23-41)
InitUtil ==
    /\ lastId = NoId
    /\ attributes = [k \in {} |-> 0]
    /\ attrStatus = "unset"
    /\ events = <<>>
    /\ lastSet = NoSet

Init ==
    /\ InitBatch
    /\ InitExit
    /\ TraceIdle
    /\ InitUtil

\* flush() up to its first suspension point (batcher.js 95-111), called with
\* the queue q and the suspended calls fl the caller left behind.
Flush(q, fl, caller, pending) ==
    /\ timer' = FALSE
    /\ timeouts' = ClearTimeout(pending, handle)
    /\ handle' = 0
    /\ IF FlushSkips(q, isFlushing)
       THEN /\ queue' = q
            /\ flights' = fl
            /\ UNCHANGED <<isFlushing, posts>>
            /\ lastCall' = [caller |-> caller, busy |-> fl # <<>>,
                            ret |-> "null", newPosts |-> 0]
       ELSE /\ isFlushing' = TRUE
            /\ queue' = TakeQueue(q)
            /\ flights' = Append(fl, [traces |-> q, attempt |-> 0,
                                      pc |-> "post", caller |-> caller,
                                      during |-> <<>>, delays |-> <<>>,
                                      posted |-> 1, rejected |-> 0,
                                      atStart |-> q,
                                      sent |-> <<PostPayload(q, <<>>)>>])
            /\ posts' = posts + 1
            /\ lastCall' = [caller |-> caller, busy |-> fl # <<>>,
                            ret |-> "pending", newPosts |-> 1]

\* enqueue(trace) (batcher.js 75-91)
Enqueue ==
    /\ nextRec <= MaxRecords
    /\ UNCHANGED <<exitVars, traceVars, utilVars>>
    /\ nextRec' = nextRec + 1
    /\ IF EnqueueDrops(isShutdown)
       THEN /\ lastApp' = "enqueueDropped"
            /\ UNCHANGED <<queue, timer, timeouts, handle, isFlushing,
                           flights, posts, accepted, lastCall, lastEnq,
                           carried>>
       ELSE LET q == Append(queue, nextRec)
                fl == [i \in DOMAIN flights |->
                          [flights[i] EXCEPT !.during = Append(@, nextRec)]]
            IN  /\ accepted' = Append(accepted, nextRec)
                /\ carried' = IF flights # <<>> THEN carried \cup {nextRec}
                                                ELSE carried
                /\ IF ReachedBatchSize(q)
                   THEN Flush(q, fl, "enqueue", timeouts)
                   ELSE /\ IF ArmsTimer(timer)
                           THEN /\ timer' = TRUE
                                /\ timeouts' = timeouts \cup {nextRec}
                                /\ handle' = nextRec
                           ELSE UNCHANGED <<timer, timeouts, handle>>
                        /\ queue' = q
                        /\ flights' = fl
                        /\ UNCHANGED <<isFlushing, posts, lastCall>>
                /\ lastApp' = IF Len(q) >= batchSize THEN "enqueueFull"
                                                     ELSE "enqueueBelow"
                /\ lastEnq' = [rec |-> nextRec,
                               reached |-> Len(q) >= batchSize,
                               busy |-> flights # <<>>,
                               began |-> Len(flights') > Len(flights),
                               batch |-> q,
                               sent |-> IF Len(flights') > Len(flights)
                                        THEN flights'[Len(flights')].traces
                                        ELSE <<>>,
                               queueAfter |-> queue',
                               timerAfter |-> timer']
    /\ UNCHANGED <<isShutdown, cfgBatchSize, cfgMaxRetries, delivered,
                   failures, unhandled, shutdownPc, lastResult, onlyEnq>>

\* the application calls flush() and handles the returned promise
ApiFlush ==
    /\ UNCHANGED <<exitVars, traceVars, utilVars>>
    /\ Flush(queue, flights, "explicit", timeouts)
    /\ lastApp' = "flush"
    /\ onlyEnq' = FALSE
    /\ UNCHANGED <<isShutdown, cfgBatchSize, cfgMaxRetries, delivered, nextRec,
                   accepted, failures, unhandled, shutdownPc, lastResult,
                   lastEnq, carried>>

\* the batch timer armed at batcher.js 89 fires: () => this.flush()
TimerFire ==
    /\ UNCHANGED <<exitVars, traceVars, utilVars>>
    /\ \E t \in timeouts : Flush(queue, flights, "timer", timeouts \ {t})
    /\ onlyEnq' = FALSE
    /\ UNCHANGED <<isShutdown, cfgBatchSize, cfgMaxRetries, delivered, nextRec,
                   accepted, failures, unhandled, shutdownPc, lastResult,
                   lastApp, lastEnq, carried>>

\* httpClient.post resolves: retry returns, flush logs, returns the response
\* and releases the guard (batcher.js 111-113, 121-123)
PostSucceeds ==
    \E i \in DOMAIN flights :
        LET f == flights[i] IN
        /\ f.pc = "post"
        /\ UNCHANGED <<exitVars, traceVars, utilVars>>
        /\ delivered' = Append(delivered, f.traces)
        /\ flights' = RemoveAt(flights, i)
        /\ isFlushing' = GuardAfter("resolved")
        /\ lastResult' = [outcome |-> "resolved", caller |-> f.caller,
                          traces |-> f.traces, during |-> f.during,
                          posted |-> f.posted, rejected |-> f.rejected,
                          delays |-> f.delays, queueAfter |-> queue]
        /\ shutdownPc' = IF f.caller = "shutdown"
                         THEN ShutdownSettles("resolved") ELSE shutdownPc
        /\ onlyEnq' = FALSE
        /\ UNCHANGED <<queue, timer, timeouts, handle, isShutdown,
                       cfgBatchSize, cfgMaxRetries, nextRec, accepted, posts,
                       failures, unhandled, lastCall, lastApp, lastEnq,
                       carried>>

\* httpClient.post rejects and retry has attempts left: it sleeps
\* (utils/index.js 131-136)
PostFailsRetry ==
    \E i \in DOMAIN flights :
        LET f == flights[i] IN
        /\ f.pc = "post"
        /\ UNCHANGED <<exitVars, traceVars, utilVars>>
        /\ failures < MaxFailures
        /\ ShouldRetry(f.attempt, maxRetries)
        /\ failures' = failures + 1
        /\ flights' = [flights EXCEPT ![i].pc = "sleep",
                          ![i].rejected = f.rejected + 1,
                          ![i].delays = Append(@, BackoffDelay(f.attempt))]
        /\ onlyEnq' = FALSE
        /\ UNCHANGED <<queue, timer, timeouts, handle, isFlushing, isShutdown,
                       cfgBatchSize, cfgMaxRetries, delivered, nextRec,
                       accepted, posts, unhandled, shutdownPc, lastCall,
                       lastResult, lastApp, lastEnq, carried>>

\* the backoff sleep ends: next iteration of the retry loop calls fn() again
BackoffElapsed ==
    \E i \in DOMAIN flights :
        LET f == flights[i] IN
        /\ f.pc = "sleep"
        /\ UNCHANGED <<exitVars, traceVars, utilVars>>
        /\ flights' = [flights EXCEPT ![i].pc = "post",
                                      ![i].attempt = f.attempt + 1,
                                      ![i].posted = f.posted + 1,
                                      ![i].sent = Append(@,
                                          PostPayload(f.traces, queue))]
        /\ posts' = posts + 1
        /\ onlyEnq' = FALSE
        /\ UNCHANGED <<queue, timer, timeouts, handle, isFlushing, isShutdown,
                       cfgBatchSize, cfgMaxRetries, delivered, nextRec,
                       accepted, failures, unhandled, shutdownPc, lastCall,
                       lastResult, lastApp, lastEnq, carried>>

\* httpClient.post rejects on the last attempt: retry throws lastError, flush
\* puts the batch back, releases the guard and rethrows (utils/index.js 139,
\* batcher.js 115-123).  The promise has a handler only when the caller
\* attached one: enqueue (line 85) and the timer callback (line 89) drop it.
PostFailsFinal ==
    \E i \in DOMAIN flights :
        LET f == flights[i] IN
        /\ f.pc = "post"
        /\ UNCHANGED <<exitVars, traceVars, utilVars>>
        /\ failures < MaxFailures
        /\ ~ShouldRetry(f.attempt, maxRetries)
        /\ failures' = failures + 1
        /\ queue' = Requeue(f.traces, queue)
        /\ flights' = RemoveAt(flights, i)
        /\ isFlushing' = GuardAfter("rejected")
        /\ carried' = carried \cup Range(f.traces)
        /\ unhandled' = IF f.caller \in {"enqueue", "timer"}
                        THEN unhandled + 1 ELSE unhandled
        /\ lastResult' = [outcome |-> "rejected", caller |-> f.caller,
                          traces |-> f.traces, during |-> f.during,
                          posted |-> f.posted, rejected |-> f.rejected + 1,
                          delays |-> f.delays, queueAfter |-> queue']
        /\ shutdownPc' = IF f.caller = "shutdown"
                         THEN ShutdownSettles("rejected") ELSE shutdownPc
        /\ onlyEnq' = FALSE
        /\ UNCHANGED <<timer, timeouts, handle, isShutdown, cfgBatchSize,
                       cfgMaxRetries, delivered, nextRec, accepted, posts,
                       lastCall, lastApp, lastEnq>>

\* shutdown() (batcher.js 148-164)
Shutdown ==
    /\ UNCHANGED <<exitVars, traceVars, utilVars>>
    /\ isShutdown' = TRUE
    /\ IF Len(queue) > 0
       THEN /\ Flush(queue, flights, "shutdown", timeouts)
            /\ shutdownPc' = IF FlushSkips(queue, isFlushing)
                             THEN "resolved" ELSE "awaiting"
       ELSE /\ timer' = FALSE
            /\ timeouts' = ClearTimeout(timeouts, handle)
            /\ handle' = 0
            /\ shutdownPc' = "resolved"
            /\ UNCHANGED <<queue, isFlushing, flights, posts, lastCall>>
    /\ lastApp' = "shutdown"
    /\ onlyEnq' = FALSE
    /\ UNCHANGED <<cfgBatchSize, cfgMaxRetries, delivered, nextRec, accepted,
                   failures, unhandled, lastResult, lastEnq, carried>>

Next ==
    \/ Enqueue
    \/ ApiFlush
    \/ TimerFire
    \/ PostSucceeds
    \/ PostFailsRetry
    \/ BackoffElapsed
    \/ PostFailsFinal
    \/ Shutdown

Spec == Init /\ [][Next]_vars

\* a POST the transport has taken settles (resolves or rejects)
PostSettles == PostSucceeds \/ PostFailsRetry \/ PostFailsFinal

\* the batcher under a transport whose POSTs settle and an event loop whose
\* backoff timers fire (utils/index.js 116-118, 134-135)
SpecLive ==
    /\ Init
    /\ [][Next]_vars
    /\ WF_vars(PostSettles)
    /\ WF_vars(BackoffElapsed)

\* ---- process-exit hooks (batcher.js 67-70, 168-184) ---------------------
Signals == {"SIGINT", "SIGTERM"}

\* cleanup(): if (!this.isShutdown) this.shutdown(), and shutdown() sets
\* isShutdown before anything else (batcher.js 149, 169-174)
Cleanup(i, ps) ==
    IF ~ps[i].isShutdown THEN [ps EXCEPT ![i].isShutdown = TRUE] ELSE ps

\* the signal listeners call process.exit(0) right after cleanup()
\* (batcher.js 176-183)
HandlerExits == TRUE

\* 'beforeExit' is emitted: every listener runs, in registration order
RECURSIVE RunBeforeExitListeners(_, _)
RunBeforeExitListeners(ls, ps) ==
    IF ls = <<>> THEN ps
    ELSE RunBeforeExitListeners(Tail(ls), Cleanup(Head(ls), ps))

\* a signal is emitted: listeners run in registration order until one of
\* them ends the process
RECURSIVE RunSignalListeners(_, _)
RunSignalListeners(ls, ps) ==
    IF ls = <<>> THEN ps
    ELSE IF HandlerExits THEN Cleanup(Head(ls), ps)
         ELSE RunSignalListeners(Tail(ls), Cleanup(Head(ls), ps))

\* instances with exit hooks that an event left without a shutdown() call
Missed(ps) == {i \in DOMAIN ps : ps[i].autoFlush /\ ~ps[i].isShutdown}

\* new BatchProcessor(config): registers its three listeners unless
\* config.disableAutoFlush (batcher.js 52-71, 168-184)
Construct ==
    /\ process = "running"
    /\ Len(procs) < MaxInstances
    /\ \E disableAutoFlush \in BOOLEAN :
        LET id == Len(procs) + 1 IN
        /\ procs' = Append(procs, [autoFlush |-> ~disableAutoFlush,
                                   isShutdown |-> FALSE])
        /\ listeners' = IF disableAutoFlush THEN listeners
                        ELSE [e \in DOMAIN listeners |->
                                 Append(listeners[e], id)]
    /\ lastEvent' = NoEvent
    /\ UNCHANGED <<process, batchVars, traceVars, utilVars>>

\* the application calls shutdown() on one instance
InstanceShutdown ==
    /\ process = "running"
    /\ \E i \in DOMAIN procs :
        /\ ~procs[i].isShutdown
        /\ procs' = [procs EXCEPT ![i].isShutdown = TRUE]
    /\ UNCHANGED <<listeners, process, lastEvent, batchVars, traceVars, utilVars>>

\* the event loop runs empty: Node emits 'beforeExit'
BeforeExit ==
    /\ process = "running"
    /\ procs' = RunBeforeExitListeners(listeners.beforeExit, procs)
    /\ lastEvent' = [event |-> "beforeExit", missed |-> Missed(procs')]
    /\ UNCHANGED <<listeners, process, batchVars, traceVars, utilVars>>

\* nothing was scheduled by the 'beforeExit' listeners: the process ends
ProcessEnds ==
    /\ process = "running"
    /\ lastEvent.event = "beforeExit"
    /\ process' = "exited"
    /\ UNCHANGED <<procs, listeners, lastEvent, batchVars, traceVars, utilVars>>

\* SIGINT or SIGTERM arrives; without a listener Node's default action ends
\* the process
Signal ==
    /\ process = "running"
    /\ \E sig \in Signals :
        /\ procs' = RunSignalListeners(listeners[sig], procs)
        /\ lastEvent' = [event |-> sig, missed |-> Missed(procs')]
    /\ process' = "exited"
    /\ UNCHANGED <<listeners, batchVars, traceVars, utilVars>>

InitExitSpec == BatchIdle /\ InitExit /\ TraceIdle /\ InitUtil

NextExit ==
    \/ Construct
    \/ InstanceShutdown
    \/ BeforeExit
    \/ ProcessEnds
    \/ Signal

SpecExit == InitExitSpec /\ [][NextExit]_vars

\* ---- Trace and Span (spans/trace.js, spans/span.js) ---------------------
TraceId == 1

\* what the calls can observe and change of the trace and its spans
Snapshot == <<traceEnded, traceStatus, traceEndTime, traceSpans, spanObjs>>

\* new Span(name, traceId, options) (span.js 23-41), 0 standing for null;
\* from and optParent remember the span it was started from and the
\* parentSpanId its creator was asked for
NewSpan(id, traceId, parentSpanId, hasCallback, from, asked) ==
    [spanId |-> id, traceId |-> traceId, parent |-> parentSpanId,
     status |-> "unset", ended |-> FALSE, endTime |-> 0,
     registered |-> hasCallback, from |-> from, optParent |-> asked]

\* guards of the calls that refuse an ended owner or a second end()
StartSpanThrowsNever(ended) == FALSE

StartSpanThrows(ended) == ended

StartChildThrowsNever(ended) == FALSE

StartChildThrows(ended) == ended

SpanAlreadyEndedNever(ended) == FALSE

SpanAlreadyEnded(ended) == ended

TraceAlreadyEndedNever(ended) == FALSE

TraceAlreadyEnded(ended) == ended

\* startChildSpan hands its own callback on to the child (span.js 91-92)
InheritsCallbackNever(p) == FALSE

InheritsCallback(p) == p.registered

\* body of Span.end() after the guard (span.js 531-535)
EndSpanKeepUnset(sp, t) == [sp EXCEPT !.endTime = t, !.ended = TRUE]

EndSpan(sp, t) ==
    [sp EXCEPT !.endTime = t, !.ended = TRUE,
               !.status = IF @ = "unset" THEN "ok" ELSE @]

\* the spans Trace.end() calls end() on, in loop order (trace.js 164-168)
SpansToEndRootsOnly(list, objs) ==
    SelectSeq(list, LAMBDA id : ~objs[id].ended /\ objs[id].parent = 0)

SpansToEnd(list, objs) == SelectSeq(list, LAMBDA id : ~objs[id].ended)

\* status of the trace derived from its spans (trace.js 173-174)
AggregateStatusOk(list, objs) == "ok"

AggregateStatus(list, objs) ==
    IF \E i \in DOMAIN list : objs[list[i]].status = "error"
    THEN "error" ELSE "ok"

\* this._ended is already set when the on-end callback runs (trace.js 170,
\* 177-179), so an end() call made from inside the callback returns at once
EndedWhenCallbackRunsNot == FALSE

EndedWhenCallbackRuns == TRUE

\* Span.toData() / Trace.toData() (span.js 543-563, trace.js 187-198)
SpanToData(sp) ==
    [span_id |-> sp.spanId, trace_id |-> sp.traceId,
     parent_span_id |-> sp.parent, end_time |-> sp.endTime,
     status |-> sp.status]

TraceToData ==
    [trace_id |-> TraceId, end_time |-> traceEndTime, status |-> traceStatus,
     spans |-> [i \in DOMAIN traceSpans |-> SpanToData(spanObjs[traceSpans[i]])]]

\* time passes
Tick ==
    /\ clock < MaxClock
    /\ clock' = clock + 1
    /\ UNCHANGED <<traceEnded, traceStatus, traceEndTime, traceSpans,
                   traceOnEnd, spanObjs, handoffs, traceExplicit,
                   lastOp, batchVars, exitVars, utilVars>>

\* trace.startSpan(name, options); startLLMSpan, startToolSpan, startRAGSpan
\* and startAgentSpan call it first, with no parentSpanId (trace.js 61-107)
StartSpan ==
    /\ \E parentOpt \in {0} \cup DOMAIN spanObjs :
        /\ IF StartSpanThrows(traceEnded)
           THEN /\ UNCHANGED <<traceSpans, spanObjs>>
                /\ lastOp' = [op |-> "startSpan", ownerEnded |-> traceEnded,
                              threw |-> TRUE,
                              changed |-> <<traceSpans', spanObjs'>> #
                                          <<traceSpans, spanObjs>>]
           ELSE LET id == Len(spanObjs) + 1 IN
                /\ Len(spanObjs) < MaxSpans
                /\ spanObjs' = Append(spanObjs,
                                  NewSpan(id, TraceId, parentOpt, TRUE, 0,
                                          parentOpt))
                /\ traceSpans' = Append(traceSpans, id)
                /\ lastOp' = [op |-> "startSpan", ownerEnded |-> traceEnded,
                              threw |-> FALSE,
                              changed |-> <<traceSpans', spanObjs'>> #
                                          <<traceSpans, spanObjs>>]
    /\ UNCHANGED <<traceEnded, traceStatus, traceEndTime, traceOnEnd, clock,
                   handoffs, traceExplicit, batchVars, exitVars, utilVars>>

\* span.startChildSpan(name, options); startChildLLMSpan, startChildToolSpan
\* and startChildRAGSpan call it first (span.js 82-124)
StartChildSpan ==
    /\ \E p \in DOMAIN spanObjs :
        IF StartChildThrows(spanObjs[p].ended)
        THEN /\ UNCHANGED <<traceSpans, spanObjs>>
             /\ lastOp' = [op |-> "startChildSpan",
                           ownerEnded |-> spanObjs[p].ended,
                           threw |-> TRUE,
                           changed |-> <<traceSpans', spanObjs'>> #
                                       <<traceSpans, spanObjs>>]
        ELSE LET id == Len(spanObjs) + 1
                 par == spanObjs[p]
             IN
             /\ Len(spanObjs) < MaxSpans
             /\ spanObjs' = Append(spanObjs,
                               NewSpan(id, par.traceId, par.spanId,
                                       InheritsCallback(par), p, 0))
             /\ traceSpans' = IF par.registered THEN Append(traceSpans, id)
                                                ELSE traceSpans
             /\ lastOp' = [op |-> "startChildSpan",
                           ownerEnded |-> spanObjs[p].ended,
                           threw |-> FALSE,
                           changed |-> <<traceSpans', spanObjs'>> #
                                       <<traceSpans, spanObjs>>]
    /\ UNCHANGED <<traceEnded, traceStatus, traceEndTime, traceOnEnd, clock,
                   handoffs, traceExplicit, batchVars, exitVars, utilVars>>

\* span.setOk() / span.setError() / span.recordException() (span.js 494-519)
SpanSetStatus ==
    /\ \E i \in DOMAIN spanObjs, st \in {"ok", "error"} :
        /\ spanObjs[i].status # st
        /\ spanObjs' = [spanObjs EXCEPT ![i].status = st]
    /\ lastOp' = [op |-> "spanSetStatus"]
    /\ UNCHANGED <<traceEnded, traceStatus, traceEndTime, traceSpans,
                   traceOnEnd, clock, handoffs, traceExplicit,
                   batchVars, exitVars, utilVars>>

\* span.end() (span.js 526-536)
SpanEnd ==
    /\ \E i \in DOMAIN spanObjs :
        /\ IF SpanAlreadyEnded(spanObjs[i].ended)
           THEN UNCHANGED spanObjs
           ELSE spanObjs' = [spanObjs EXCEPT ![i] = EndSpan(@, clock)]
        /\ lastOp' = [op |-> "spanEnd", span |-> i,
                      again |-> spanObjs[i].ended,
                      changed |-> spanObjs' # spanObjs]
    /\ UNCHANGED <<traceEnded, traceStatus, traceEndTime, traceSpans,
                   traceOnEnd, clock, handoffs, traceExplicit, batchVars,
                   exitVars, utilVars>>

\* trace.setOk() / trace.setError() (trace.js 131-141)
TraceSetStatus ==
    /\ \E st \in {"ok", "error"} :
        /\ traceStatus # st \/ ~traceExplicit
        /\ traceStatus' = st
    /\ traceExplicit' = TRUE
    /\ lastOp' = [op |-> "traceSetStatus"]
    /\ UNCHANGED <<traceEnded, traceEndTime, traceSpans, traceOnEnd, spanObjs,
                   clock, handoffs, batchVars, exitVars, utilVars>>

\* trace.end() (trace.js 158-180); the on-end callback registered by
\* AMP.trace calls batcher.enqueue(trace) (client.ts 157-159) and may itself
\* call trace.end() again (reenter)
TraceEnd ==
    /\ UNCHANGED <<traceSpans, traceOnEnd, clock, traceExplicit, batchVars,
                   exitVars, utilVars>>
    /\ \E reenter \in BOOLEAN :
        IF TraceAlreadyEnded(traceEnded)
        THEN /\ UNCHANGED <<traceEnded, traceStatus, traceEndTime, spanObjs,
                            handoffs>>
             /\ lastOp' = [op |-> "traceEnd", again |-> traceEnded,
                           changed |-> Snapshot' # Snapshot, calls |-> 0,
                           sawEnded |-> TRUE, reentered |-> FALSE,
                           forced |-> <<>>, explicitBefore |-> traceExplicit,
                           statusBefore |-> traceStatus]
        ELSE LET forced == SpansToEnd(traceSpans, spanObjs)
                 objs == [i \in DOMAIN spanObjs |->
                             IF i \in Range(forced)
                             THEN EndSpan(spanObjs[i], clock)
                             ELSE spanObjs[i]]
                 calls == IF ~traceOnEnd THEN 0
                          ELSE IF reenter /\ ~EndedWhenCallbackRuns THEN 2
                          ELSE 1
             IN
             /\ spanObjs' = objs
             /\ traceEndTime' = clock
             /\ traceEnded' = TRUE
             /\ traceStatus' = IF traceStatus = "unset"
                               THEN AggregateStatus(traceSpans, objs)
                               ELSE traceStatus
             /\ handoffs' = handoffs + calls
             /\ lastOp' = [op |-> "traceEnd", again |-> traceEnded,
                           changed |-> Snapshot' # Snapshot, calls |-> calls,
                           sawEnded |-> EndedWhenCallbackRuns,
                           reentered |-> reenter /\ traceOnEnd,
                           forced |-> forced,
                           explicitBefore |-> traceExplicit,
                           statusBefore |-> traceStatus]

InitTraceSpec == BatchIdle /\ InitExit /\ InitTrace /\ InitUtil

NextTrace ==
    \/ Tick
    \/ StartSpan
    \/ StartChildSpan
    \/ SpanSetStatus
    \/ SpanEnd
    \/ TraceSetStatus
    \/ TraceEnd

SpecTrace == InitTraceSpec /\ [][NextTrace]_vars

\* ---- id generation (utils/index.js 19-76, utils/index.ts 156-177) --------
HexChars == <<"0", "1", "2", "3", "4", "5", "6", "7",
              "8", "9", "a", "b", "c", "d", "e", "f">>

\* b.toString(16).padStart(2, '0') for a byte b
ByteToHex(b) == <<HexChars[(b \div 16) + 1], HexChars[(b % 16) + 1]>>

\* bytesToHex(bytes)
bytesToHex(bytes) == Flatten([i \in DOMAIN bytes |-> ByteToHex(bytes[i])])

\* isZero(bytes)
isZero(bytes) == \A i \in DOMAIN bytes : bytes[i] = 0

\* outcomes of the random source: n values, all zero or zero except at some
\* of the first, second and last position
ByteSamples == {1, 10, 16, 171, 255}

DigitSamples == {1, 10, 15}

Draws(n, samples) ==
    {[i \in 1..n |-> 0]} \cup
    {[i \in 1..n |-> IF i \in S THEN v ELSE 0] :
         S \in (SUBSET {1, 2, n}) \ {{}}, v \in samples}

\* do { bytes = getRandomBytes(n) } while (isZero(bytes)); bytesToHex(bytes)
\* over the successive outcomes of getRandomBytes
RECURSIVE DrawUntilNonZero(_)
DrawUntilNonZero(draws) ==
    IF isZero(Head(draws)) THEN DrawUntilNonZero(Tail(draws))
    ELSE bytesToHex(Head(draws))

\* the second generateId(length) of utils/index.ts: one hex character per
\* outcome of Math.floor(Math.random() * 16), no test for zero
GenerateIdChars(digits) == [i \in DOMAIN digits |-> HexChars[digits[i] + 1]]

\* k all-zero draws followed by the draw b
ZerosThen(k, b) ==
    [i \in 1..(k + 1) |-> IF i <= k THEN [j \in DOMAIN b |-> 0] ELSE b]

\* generateTraceId() (utils/index.js 58-64, utils/index.ts 51-57)
GenerateTraceId ==
    /\ \E k \in 0..MaxRedraws, b \in Draws(16, ByteSamples) :
        /\ ~isZero(b)
        /\ lastId' = [fn |-> "generateTraceId", def |-> 1,
                      id |-> DrawUntilNonZero(ZerosThen(k, b)), redraws |-> k]
    /\ UNCHANGED <<attributes, attrStatus, events, lastSet, batchVars,
                   exitVars, traceVars>>

\* generateSpanId() (utils/index.js 70-76, utils/index.ts 64-70)
GenerateSpanId ==
    /\ \E k \in 0..MaxRedraws, b \in Draws(8, ByteSamples) :
        /\ ~isZero(b)
        /\ lastId' = [fn |-> "generateSpanId", def |-> 1,
                      id |-> DrawUntilNonZero(ZerosThen(k, b)), redraws |-> k]
    /\ UNCHANGED <<attributes, attrStatus, events, lastSet, batchVars,
                   exitVars, traceVars>>

\* generateTraceId() as defined a second time (utils/index.ts 168-170)
GenerateTraceId2 ==
    /\ \E digits \in Draws(32, DigitSamples) :
        lastId' = [fn |-> "generateTraceId", def |-> 2,
                   id |-> GenerateIdChars(digits), redraws |-> 0]
    /\ UNCHANGED <<attributes, attrStatus, events, lastSet, batchVars,
                   exitVars, traceVars>>

\* generateSpanId() as defined a second time (utils/index.ts 175-177)
GenerateSpanId2 ==
    /\ \E digits \in Draws(16, DigitSamples) :
        lastId' = [fn |-> "generateSpanId", def |-> 2,
                   id |-> GenerateIdChars(digits), redraws |-> 0]
    /\ UNCHANGED <<attributes, attrStatus, events, lastSet, batchVars,
                   exitVars, traceVars>>

InitIds == BatchIdle /\ InitExit /\ TraceIdle /\ InitUtil

NextIds ==
    \/ GenerateTraceId
    \/ GenerateSpanId
    \/ GenerateTraceId2
    \/ GenerateSpanId2

SpecIds == InitIds /\ [][NextIds]_vars

\* ---- attribute setters of a Span (span.js 144-157, 339-344, 428-519) -----
ModernTokenKeys ==
    {"gen_ai.usage.input_tokens", "gen_ai.usage.output_tokens",
     "gen_ai.usage.total_tokens"}

LegacyTokenKeys ==
    {"gen_ai.usage.prompt_tokens", "gen_ai.usage.completion_tokens",
     "gen_ai.prompt_tokens", "gen_ai.completion_tokens",
     "gen_ai.total_tokens"}

TokenKeys == ModernTokenKeys \cup LegacyTokenKeys

\* Object.assign(attrs, writes): the assignments this._attributes[k] = v
Assign(attrs, writes) ==
    [k \in DOMAIN attrs \cup DOMAIN writes |->
        IF k \in DOMAIN writes THEN writes[k] ELSE attrs[k]]

\* the assignments of setTokens(inputTokens, outputTokens) (span.js 144-157)
TokenWritesNoLegacyTotal(inputTokens, outputTokens) ==
    LET total == inputTokens + outputTokens IN
    [k \in TokenKeys \ {"gen_ai.total_tokens"} |->
        CASE k \in {"gen_ai.usage.input_tokens", "gen_ai.usage.prompt_tokens",
                    "gen_ai.prompt_tokens"} -> inputTokens
          [] k \in {"gen_ai.usage.output_tokens",
                    "gen_ai.usage.completion_tokens",
                    "gen_ai.completion_tokens"} -> outputTokens
          [] OTHER -> total]

TokenWrites(inputTokens, outputTokens) ==
    LET total == inputTokens + outputTokens IN
    [k \in TokenKeys |->
        CASE k \in {"gen_ai.usage.input_tokens", "gen_ai.usage.prompt_tokens",
                    "gen_ai.prompt_tokens"} -> inputTokens
          [] k \in {"gen_ai.usage.output_tokens",
                    "gen_ai.usage.completion_tokens",
                    "gen_ai.completion_tokens"} -> outputTokens
          [] OTHER -> total]

\* Math.max() of no arguments is -Infinity, below every score
NegInfinity == 0 - 1

\* Math.max(...scores)
RECURSIVE MathMax(_)
MathMax(scores) ==
    IF scores = <<>> THEN NegInfinity
    ELSE LET rest == MathMax(Tail(scores)) IN
         IF Head(scores) >= rest THEN Head(scores) ELSE rest

\* context.reduce((sum, doc) => sum + doc.content.length, 0)
RECURSIVE ContentLength(_)
ContentLength(context) ==
    IF context = <<>> THEN 0
    ELSE Head(context).length + ContentLength(Tail(context))

\* documents: length of the content and score
Docs == {[length |-> 3, score |-> 1], [length |-> 2, score |-> 2]}

Contexts == UNION {[1..n -> Docs] : n \in 0..MaxDocs}

\* the assignments of setRetrievedContext(context) (span.js 339-344)
ContextWrites(context) ==
    [k \in {"retrieved_context", "context_length", "top_score"} |->
        CASE k = "retrieved_context" -> context
          [] k = "context_length" -> ContentLength(context)
          [] OTHER -> MathMax([i \in DOMAIN context |-> context[i].score])]

Before == [attributes |-> attributes, status |-> attrStatus, events |-> events]

\* span.setAttribute(key, value) with a key of the application (428-431)
SetAttribute ==
    /\ "custom" \notin DOMAIN attributes
    /\ attributes' = Assign(attributes, [k \in {"custom"} |-> 1])
    /\ lastSet' = [op |-> "setAttribute", before |-> Before]
    /\ UNCHANGED <<lastId, attrStatus, events, batchVars, exitVars, traceVars>>

\* span.setOk() / span.setError() on that span (span.js 494-507)
SetStatus ==
    /\ \E st \in {"ok", "error"} :
        /\ attrStatus # st
        /\ attrStatus' = st
    /\ lastSet' = [op |-> "setStatus", before |-> Before]
    /\ UNCHANGED <<lastId, attributes, events, batchVars, exitVars, traceVars>>

\* span.addEvent(name, attributes) (span.js 458-465)
AddEvent ==
    /\ Len(events) < MaxEvents
    /\ events' = Append(events, "event")
    /\ lastSet' = [op |-> "addEvent", before |-> Before]
    /\ UNCHANGED <<lastId, attributes, attrStatus, batchVars, exitVars,
                   traceVars>>

\* span.setTokens(inputTokens, outputTokens) (span.js 144-157)
SetTokens ==
    /\ \E inputTokens \in 0..MaxTokens, outputTokens \in 0..MaxTokens :
        /\ attributes' = Assign(attributes,
                                TokenWrites(inputTokens, outputTokens))
        /\ lastSet' = [op |-> "setTokens", before |-> Before,
                       input |-> inputTokens, output |-> outputTokens]
    /\ UNCHANGED <<lastId, attrStatus, events, batchVars, exitVars, traceVars>>

\* span.setRetrievedContext(context) (span.js 339-344); no statement of it
\* throws for an array of documents, empty or not
SetRetrievedContext ==
    /\ \E context \in Contexts :
        /\ attributes' = Assign(attributes, ContextWrites(context))
        /\ lastSet' = [op |-> "setRetrievedContext", before |-> Before,
                       context |-> context, threw |-> FALSE]
    /\ UNCHANGED <<lastId, attrStatus, events, batchVars, exitVars, traceVars>>

InitAttrs == BatchIdle /\ InitExit /\ TraceIdle /\ InitUtil

NextAttrs ==
    \/ SetAttribute
    \/ SetStatus
    \/ AddEvent
    \/ SetTokens
    \/ SetRetrievedContext

SpecAttrs == InitAttrs /\ [][NextAttrs]_vars

\* ---- observations used by the properties --------------------------------
InFlight == Flatten([i \in DOMAIN flights |-> flights[i].traces])

Delivered == Flatten(delivered)

AtRest == flights = <<>>

\* C1: single-flight. At most one transmission (POST, retry or backoff
\* sleep) is in progress, and a flush() call made while one is in progress
\* returns null and makes no POST.
C1_SingleFlight ==
    /\ Len(flights) <= 1
    /\ lastCall.busy => (lastCall.ret = "null" /\ lastCall.newPosts = 0)

C1_Witness ==
    /\ lastCall.busy
    /\ lastCall.caller = "explicit"
    /\ flights # <<>>
    /\ queue # <<>>

\* C2: no accepted record is lost. Every accepted record is in exactly one
\* of the queue, the batch in flight, or a batch whose POST succeeded; a
\* record that was not accepted is in none of them.
C2_NoRecordLost ==
    \A r \in 1..(nextRec - 1) :
        LET n == Occurrences(queue, r) + Occurrences(InFlight, r)
                 + Occurrences(Delivered, r)
        IN  IF r \in Range(accepted) THEN n = 1 ELSE n = 0

C2_Witness ==
    /\ lastResult.outcome = "rejected"
    /\ delivered # <<>>
    /\ flights # <<>>
    /\ queue # <<>>

\* C3: failure requeue order. When a transmission fails after all retries
\* the queue is the failed batch followed by the records enqueued during
\* the attempt, each part in its own order.
C3_FailureRequeueOrder ==
    lastResult.outcome = "rejected" =>
        lastResult.queueAfter = lastResult.traces \o lastResult.during

C3_Witness ==
    /\ lastResult.outcome = "rejected"
    /\ Len(lastResult.traces) >= 2
    /\ lastResult.during # <<>>

\* C4: FIFO delivery without duplicates. The successful batches, put end to
\* end in order of success, list accepted records in acceptance order and
\* list no record twice.
C4_FifoNoDuplicates ==
    /\ Range(Delivered) \subseteq Range(accepted)
    /\ \A i, j \in DOMAIN Delivered :
           i < j => \E a, b \in DOMAIN accepted :
                        /\ a < b
                        /\ accepted[a] = Delivered[i]
                        /\ accepted[b] = Delivered[j]
    /\ \A r \in Range(Delivered) : Occurrences(Delivered, r) = 1

C4_Witness ==
    /\ Len(delivered) >= 2
    /\ failures > 0
    /\ \E r \in Range(Delivered) : r \in carried
    /\ lastResult.outcome = "resolved"

\* C5 (as stated): size trigger. Every accepted enqueue that brings the
\* queue to batchSize or more starts a flush that transmits the queued
\* records.
C5_SizeTriggerAlways ==
    lastEnq.reached => (lastEnq.began /\ lastEnq.sent = lastEnq.batch)

\* C5 (amended): size trigger. An accepted enqueue that brings the queue to
\* batchSize or more starts a flush of the whole queue exactly when no flush
\* is in flight; when one is in flight the call starts nothing, the records
\* stay queued and the pending timer is cancelled. With batchSize = 2 and
\* three records enqueued back to back, one flush is started, at the second
\* record, and the queue then holds the third record with a timer pending.
C5_SizeTrigger ==
    /\ (lastEnq.reached /\ ~lastEnq.busy) =>
           /\ lastEnq.began
           /\ lastEnq.sent = lastEnq.batch
           /\ lastEnq.queueAfter = <<>>
    /\ (lastEnq.reached /\ lastEnq.busy) =>
           /\ ~lastEnq.began
           /\ lastEnq.queueAfter = lastEnq.batch
           /\ ~lastEnq.timerAfter
    /\ (lastEnq.rec # 0 /\ ~lastEnq.reached) =>
           (~lastEnq.began /\ lastEnq.timerAfter)
    /\ (onlyEnq /\ cfgBatchSize = 2 /\ accepted = <<1, 2, 3>>) =>
           /\ posts = 1
           /\ Len(flights) = 1
           /\ flights[1].traces = <<1, 2>>
           /\ flights[1].caller = "enqueue"
           /\ queue = <<3>>
           /\ timer

C5_Witness ==
    /\ onlyEnq
    /\ cfgBatchSize = 2
    /\ accepted = <<1, 2, 3>>
    /\ lastEnq.rec = 3

\* C6: bounded wait by timer. With a transport that never rejects, after a
\* record was accepted below the size threshold and the application made no
\* further call, a non-empty queue with nothing in flight has a timer
\* pending (otherwise nothing would ever transmit the record).
C6_BoundedWaitByTimer ==
    (lastApp = "enqueueBelow" /\ failures = 0 /\ AtRest /\ queue # <<>>)
        => timer

\* C7 (as stated): queue bound. With no flush in flight the queue is shorter
\* than batchSize.
C7_QueueBelowBatchSize == AtRest => Len(queue) < batchSize

\* C7 (amended): queue bound. With no flush in flight the queue is shorter
\* than batchSize unless it holds a record that a failed flush put back or
\* that was enqueued while a flush was in flight.
C7_QueueBound ==
    (AtRest /\ Range(queue) \cap carried = {}) => Len(queue) < batchSize

C7_Witness ==
    /\ AtRest
    /\ cfgBatchSize = 2
    /\ delivered # <<>>
    /\ Len(queue) = 1
    /\ Range(queue) \cap carried = {}
    /\ lastApp = "enqueueBelow"

\* C8: retry exhaustion. A transmission that is rejected on every attempt
\* makes exactly config.maxRetries + 1 POSTs (also for maxRetries = 0), then
\* rejects, and the whole batch is back in the queue.
C8_RetryExhaustion ==
    lastResult.outcome = "rejected" =>
        /\ lastResult.posted = cfgMaxRetries + 1
        /\ lastResult.rejected = lastResult.posted
        /\ SubSeq(lastResult.queueAfter, 1, Len(lastResult.traces))
               = lastResult.traces

\* C9: retry then success. A transmission whose first k POSTs are rejected
\* and whose next POST is accepted makes exactly k + 1 POSTs with
\* k <= maxRetries, resolves, leaves its batch out of the queue, and slept
\* BaseDelay * 2^i before retry i (i = 0 .. k-1) and at no other time.
C9_RetryThenSuccess ==
    lastResult.outcome = "resolved" =>
        /\ lastResult.posted = lastResult.rejected + 1
        /\ lastResult.rejected <= maxRetries
        /\ Len(lastResult.delays) = lastResult.rejected
        /\ \A i \in DOMAIN lastResult.delays :
               lastResult.delays[i] = BaseDelay * (2 ^ (i - 1))
        /\ Range(lastResult.traces) \cap Range(lastResult.queueAfter) = {}
        /\ Range(lastResult.traces) \subseteq Range(Delivered)

C9_Witness ==
    /\ lastResult.outcome = "resolved"
    /\ lastResult.rejected = 2
    /\ lastResult.delays = <<500, 1000>>

\* C10: automatic flushes fail silently. No flush started by enqueue or by
\* the timer leaves a rejected promise without a handler.
C10_AutoFlushSilent == unhandled = 0
\* C11: shutdown drains. With a transport that never rejects, once a
\* shutdown() call has resolved the queue is empty and every accepted record
\* has been delivered.
C11_ShutdownDrains ==
    (shutdownPc = "resolved" /\ failures = 0) =>
        /\ queue = <<>>
        /\ Range(accepted) \subseteq Range(Delivered)

\* C12: enqueue after shutdown is a no-op. isShutdown never goes back to
\* false, and an enqueue call made while it is true changes neither queue,
\* timer, isFlushing nor the transmissions, and makes no POST.
C12_EnqueueAfterShutdown ==
    [][isShutdown =>
          /\ isShutdown'
          /\ (nextRec' # nextRec =>
                 /\ UNCHANGED <<queue, timer, isFlushing, flights, posts,
                                accepted>>
                 /\ lastApp' = "enqueueDropped")]_vars

C12_Witness ==
    /\ isShutdown
    /\ lastApp = "enqueueDropped"
    /\ flights # <<>>
    /\ nextRec > Len(accepted) + 1

\* C13: shutdown never throws. No shutdown() call rejects, whatever the
\* transport does; a call that is still pending is waiting for its own final
\* flush; and when that flush fails its batch is back in the queue.
C13_ShutdownNeverRejects ==
    /\ shutdownPc # "rejected"
    /\ shutdownPc = "awaiting" =>
           \E i \in DOMAIN flights : flights[i].caller = "shutdown"
    /\ (lastResult.outcome = "rejected" /\ lastResult.caller = "shutdown") =>
           SubSeq(lastResult.queueAfter, 1, Len(lastResult.traces))
               = lastResult.traces

C13_Witness ==
    /\ lastResult.outcome = "rejected"
    /\ lastResult.caller = "shutdown"
    /\ shutdownPc = "resolved"
    /\ lastApp = "shutdown"
    /\ queue # <<>>
\* C14: exit hooks reach every instance. After a beforeExit, SIGINT or
\* SIGTERM event every instance constructed without disableAutoFlush is shut
\* down: its shutdown() was invoked by its hook unless it already was.
C14_ExitHooksReachAll == lastEvent.missed = {}

\* position of a span in the trace's span list
Pos(id) == CHOOSE k \in DOMAIN traceSpans : traceSpans[k] = id

\* C15: once trace.end() has run, every span registered with the trace is
\* ended, whatever its depth, and the spans that trace.end() ended itself were
\* ended in the order of their registration.
C15_CascadingEnd ==
    /\ traceEnded => \A k \in DOMAIN traceSpans : spanObjs[traceSpans[k]].ended
    /\ (lastOp.op = "traceEnd" /\ ~lastOp.again) =>
          \A i, j \in DOMAIN lastOp.forced :
              i < j => Pos(lastOp.forced[i]) < Pos(lastOp.forced[j])

\* trace.end() has just ended an open root, its child and its grandchild
C15_Witness ==
    /\ lastOp.op = "traceEnd" /\ ~lastOp.again
    /\ lastOp.forced = <<1, 2, 3>>
    /\ spanObjs[2].from = 1 /\ spanObjs[3].from = 2
    /\ \A i \in 1..3 : spanObjs[i].ended


\* C16: the first trace.end() of a trace whose status was never set by
\* setOk/setError leaves the status error exactly when some registered span
\* has status error, and ok otherwise; a status set before end() is kept.
C16_StatusAggregation ==
    (lastOp.op = "traceEnd" /\ ~lastOp.again) =>
        IF lastOp.explicitBefore
        THEN traceStatus = lastOp.statusBefore
        ELSE traceStatus =
                 IF \E k \in DOMAIN traceSpans :
                        spanObjs[traceSpans[k]].status = "error"
                 THEN "error" ELSE "ok"

\* trace.end() without setOk/setError, one span ok and a later one in error
C16_Witness ==
    /\ lastOp.op = "traceEnd" /\ ~lastOp.again /\ ~lastOp.explicitBefore
    /\ Len(traceSpans) >= 2
    /\ spanObjs[1].status = "ok" /\ spanObjs[2].status = "error"
    /\ traceStatus = "error"


\* C17: a second or later end() on a span or on a trace changes nothing: end
\* time, status and ended flag of the object and, for a trace, its span list
\* and the state of its spans are as they were before the call.
C17_IdempotentEnd ==
    (lastOp.op \in {"spanEnd", "traceEnd"} /\ lastOp.again) => ~lastOp.changed

\* end() called again on a span at a later time than its first end()
C17_Witness ==
    /\ lastOp.op = "spanEnd" /\ lastOp.again /\ ~lastOp.changed
    /\ spanObjs[lastOp.span].ended
    /\ spanObjs[lastOp.span].endTime < clock


\* C18: for a trace made by AMP.trace the on-end callback, which passes the
\* trace to BatchProcessor.enqueue, has run exactly once as soon as the trace
\* is ended and not at all before, however often end() is called and also
\* when the callback itself calls end(); when it runs the trace is ended.
C18_HandoffOnce ==
    traceOnEnd =>
        /\ handoffs = IF traceEnded THEN 1 ELSE 0
        /\ (lastOp.op = "traceEnd" /\ lastOp.calls > 0) =>
               (lastOp.sawEnded /\ ~lastOp.again)

\* the first end() of an AMP.trace trace whose callback called end() again
C18_Witness ==
    /\ traceOnEnd /\ traceEnded
    /\ lastOp.op = "traceEnd" /\ ~lastOp.again /\ lastOp.reentered
    /\ lastOp.calls = 1 /\ handoffs = 1


\* C19: trace.startSpan (and its typed wrappers) on an ended trace, and
\* span.startChildSpan (and its typed wrappers) on an ended span, throw and
\* leave the trace's span list and every existing span as they were.
C19_NoSpanUnderEndedOwner ==
    (lastOp.op \in {"startSpan", "startChildSpan"} /\ lastOp.ownerEnded) =>
        (lastOp.threw /\ ~lastOp.changed)

\* startChildSpan was refused on an ended span of a trace that is still open
C19_Witness ==
    /\ lastOp.op = "startChildSpan" /\ lastOp.ownerEnded /\ lastOp.threw
    /\ ~traceEnded
    /\ Len(traceSpans) < MaxSpans


\* every created span is in the trace's span list exactly once, in creation
\* order, carries the trace's id, and has its own entry in trace.toData().spans
Registered ==
    /\ traceSpans = [k \in 1..Len(spanObjs) |-> k]
    /\ \A i \in DOMAIN spanObjs : spanObjs[i].traceId = TraceId
    /\ Len(TraceToData.spans) = Len(spanObjs)
    /\ \A i, j \in DOMAIN TraceToData.spans :
           i # j => TraceToData.spans[i].span_id # TraceToData.spans[j].span_id

\* C20: every span created from a trace, a root by startSpan or a descendant
\* at any depth by startChildSpan, is appended exactly once to the trace's one
\* span list in creation order, carries the trace's traceId, and has as
\* parentSpanId the spanId of the span it was started from, null for a root.
C20_FlatRegistration ==
    /\ Registered
    /\ \A i \in DOMAIN spanObjs : spanObjs[i].parent = spanObjs[i].from

\* C20 (amended): as above, but the parentSpanId of a root is the
\* options.parentSpanId given to trace.startSpan, and null only without one;
\* a span made by startChildSpan always has its creator's spanId.
C20_FlatRegistrationLinked ==
    /\ Registered
    /\ \A i \in DOMAIN spanObjs :
           spanObjs[i].parent =
               IF spanObjs[i].from # 0
               THEN spanObjs[spanObjs[i].from].spanId
               ELSE spanObjs[i].optParent

\* a root, its child and its grandchild, all in the trace's list
C20_Witness ==
    /\ Len(spanObjs) = 3
    /\ spanObjs[1].from = 0 /\ spanObjs[2].from = 1 /\ spanObjs[3].from = 2
    /\ spanObjs[3].parent = 2
    /\ traceSpans = <<1, 2, 3>>


\* an id of n lowercase hex characters that are not all "0"
ValidId(id, n) ==
    /\ Len(id) = n
    /\ \A i \in DOMAIN id : id[i] \in Range(HexChars)
    /\ \E i \in DOMAIN id : id[i] # "0"

\* C21: every value returned by generateTraceId is 32 lowercase hex
\* characters, not all zeros, and every value returned by generateSpanId is
\* 16 lowercase hex characters, not all zeros, whatever the random source
\* gives.
C21_IdValidity ==
    /\ lastId.fn = "generateTraceId" => ValidId(lastId.id, 32)
    /\ lastId.fn = "generateSpanId" => ValidId(lastId.id, 16)

\* the same for the generators that redraw an all-zero outcome
C21_IdValidityRetrying == lastId.def = 1 => C21_IdValidity


\* C22: after a flush has failed and put its batch back, the requeued
\* records are on their way again without a further application call: while
\* they wait in the queue of a processor that is not shut down, a batch timer
\* is pending or a flush is in flight.
C22_FailedBatchRetried ==
    (/\ lastResult.outcome = "rejected"
     /\ ~isShutdown
     /\ Range(lastResult.traces) \subseteq Range(queue)) =>
        (timer \/ isFlushing)


\* C23: at most one batch timer is pending, and it is the one this.timer
\* refers to; an enqueue below the threshold arms a timer when none is
\* pending and leaves a pending one as it is; every flush() call (from the
\* application, the timer, an enqueue at the threshold or shutdown) leaves no
\* timer pending.
C23_SingleTimer ==
    [][/\ Cardinality(timeouts') <= 1
       /\ timer' <=> timeouts' # {}
       /\ timeouts' \subseteq {handle'}
       /\ (Enqueue /\ lastApp' = "enqueueBelow" /\ timer) =>
              (timeouts' = timeouts /\ handle' = handle)
       /\ (Enqueue /\ lastApp' = "enqueueBelow" /\ ~timer) =>
              (timeouts' = {nextRec} /\ handle' = nextRec)
       /\ (\/ ApiFlush
           \/ TimerFire
           \/ Shutdown
           \/ (Enqueue /\ lastApp' = "enqueueFull")) =>
              (timeouts' = {} /\ ~timer')]_vars

\* an enqueue below the threshold found the timer of an earlier record pending
C23_Witness ==
    /\ lastApp = "enqueueBelow"
    /\ timer /\ timeouts = {handle}
    /\ handle < lastEnq.rec
    /\ lastEnq.rec = nextRec - 1


\* a step in which flush() is called
FlushCalled ==
    \/ ApiFlush
    \/ TimerFire
    \/ Enqueue /\ lastApp' = "enqueueFull"
    \/ Shutdown /\ Len(queue) > 0

\* a step in which a flush() call resolves or rejects after its POSTs
FlushSettled == PostSucceeds \/ PostFailsFinal

\* C24: whenever a flush() call returns or rejects, by success, by failure
\* after the retries or by the early null return (empty queue or another flush
\* in flight), isFlushing is false at that moment.
C24_GuardReleased ==
    [][/\ FlushSettled => ~isFlushing'
       /\ (FlushCalled /\ lastCall'.ret = "null") => ~isFlushing']_vars

\* C24 (amended): isFlushing is false when a flush() call resolves or rejects
\* after its POSTs and when it returns null on an empty queue with no flush
\* in flight; when it returns null because another flush is in flight, the
\* guard stays set for that flush and is false once that flush settles.
C24_GuardReleasedByOwner ==
    [][/\ FlushSettled => ~isFlushing'
       /\ (FlushCalled /\ lastCall'.ret = "null") =>
              /\ isFlushing' = isFlushing
              /\ isFlushing' <=> flights' # <<>>]_vars

\* the application's flush() returned null while a flush that had already
\* failed one POST was in flight, and the guard is still set for that flush
C24_Witness ==
    /\ lastApp = "flush"
    /\ lastCall.caller = "explicit" /\ lastCall.ret = "null" /\ lastCall.busy
    /\ Len(flights) = 1 /\ flights[1].rejected = 1
    /\ isFlushing


\* C25: the batch a flush transmits is the queue as it was when the flush
\* started, in every POST attempt; records enqueued while its POST or its
\* backoff sleep is pending are in none of its POSTs and wait in the queue.
C25_BatchIsolation ==
    \A i \in DOMAIN flights :
        /\ \A k \in DOMAIN flights[i].sent :
               /\ flights[i].sent[k] = flights[i].atStart
               /\ Range(flights[i].sent[k]) \cap Range(flights[i].during) = {}
        /\ Len(flights[i].sent) = flights[i].posted
        /\ Range(flights[i].during) \subseteq Range(queue)

\* a flush posting its batch a second time after a record arrived in between
C25_Witness ==
    /\ Len(flights) = 1
    /\ flights[1].pc = "post" /\ flights[1].posted = 2
    /\ flights[1].during # <<>>
    /\ Len(flights[1].atStart) = 2


\* C26: over all setOk, setError, recordException and end calls a span never
\* goes from ended back to not ended; its endTime is undefined (0) until the
\* first end(), which assigns it, and never changes afterwards; an ended span
\* has status ok or error, never unset.
C26_SpanForwardOnly ==
    [][/\ \A i \in DOMAIN spanObjs :
              /\ spanObjs[i].ended =>
                     /\ spanObjs'[i].ended
                     /\ spanObjs'[i].endTime = spanObjs[i].endTime
              /\ (~spanObjs[i].ended /\ spanObjs'[i].ended) =>
                     spanObjs'[i].endTime = clock
       /\ \A i \in DOMAIN spanObjs' :
              /\ ~spanObjs'[i].ended => spanObjs'[i].endTime = 0
              /\ spanObjs'[i].ended =>
                     /\ spanObjs'[i].endTime # 0
                     /\ spanObjs'[i].status \in {"ok", "error"}]_vars

\* a span ended at time 1 without a status, later set to error and ended anew
C26_Witness ==
    /\ lastOp.op = "spanEnd" /\ lastOp.again
    /\ spanObjs[lastOp.span].ended
    /\ spanObjs[lastOp.span].endTime = 1 /\ clock = 2
    /\ spanObjs[lastOp.span].status = "error"


\* C29: once the trace is ended no call adds a span: the span list and the
\* number of spans stay as they are, and every span in the list is ended.
C29_FrozenOnceEnded ==
    [][traceEnded =>
           /\ traceEnded'
           /\ traceSpans' = traceSpans
           /\ Len(spanObjs') = Len(spanObjs)
           /\ \A k \in DOMAIN traceSpans' : spanObjs'[traceSpans'[k]].ended]_vars

\* startChildSpan was refused on a span of an ended trace with room for more
C29_Witness ==
    /\ traceEnded
    /\ lastOp.op = "startChildSpan" /\ lastOp.threw
    /\ Len(traceSpans) = 2 /\ spanObjs[2].from = 1
    /\ Len(spanObjs) < MaxSpans


\* the attribute keys the latest setter call bound anew or to another value
Changed ==
    {k \in DOMAIN attributes :
        \/ k \notin DOMAIN lastSet.before.attributes
        \/ attributes[k] # lastSet.before.attributes[k]}

\* the latest setter call left status, events and the attributes outside
\* keys as they were, and removed no attribute
OthersKept(keys) ==
    /\ attrStatus = lastSet.before.status
    /\ events = lastSet.before.events
    /\ DOMAIN lastSet.before.attributes \subseteq DOMAIN attributes
    /\ Changed \subseteq keys

\* the span's attributes bind key to value
Has(key, value) == key \in DOMAIN attributes /\ attributes[key] = value

\* input, output and their sum under the modern spelling
ModernTokensSet ==
    /\ Has("gen_ai.usage.input_tokens", lastSet.input)
    /\ Has("gen_ai.usage.output_tokens", lastSet.output)
    /\ Has("gen_ai.usage.total_tokens", lastSet.input + lastSet.output)

\* C27: setTokens(input, output) writes exactly six attribute keys, input,
\* output and their sum under the modern spelling and the same three values
\* under the legacy spelling, and leaves every other attribute, the status
\* and the events unchanged.
C27_SetTokensSixKeys ==
    lastSet.op = "setTokens" =>
        /\ ModernTokensSet
        /\ Has("gen_ai.usage.prompt_tokens", lastSet.input)
        /\ Has("gen_ai.usage.completion_tokens", lastSet.output)
        /\ Has("gen_ai.total_tokens", lastSet.input + lastSet.output)
        /\ Cardinality(Changed) <= 6
        /\ OthersKept(TokenKeys)

\* C27 (amended): setTokens(input, output) writes eight attribute keys, the
\* three modern ones and five legacy ones (prompt and completion tokens under
\* two spellings each, and the total), and leaves every other attribute, the
\* status and the events unchanged.
C27_SetTokensEightKeys ==
    lastSet.op = "setTokens" =>
        /\ ModernTokensSet
        /\ Has("gen_ai.usage.prompt_tokens", lastSet.input)
        /\ Has("gen_ai.usage.completion_tokens", lastSet.output)
        /\ Has("gen_ai.prompt_tokens", lastSet.input)
        /\ Has("gen_ai.completion_tokens", lastSet.output)
        /\ Has("gen_ai.total_tokens", lastSet.input + lastSet.output)
        /\ OthersKept(TokenKeys)

\* setTokens(2, 1) on a span in error that has an event, a custom attribute
\* and a retrieved context
C27_Witness ==
    /\ lastSet.op = "setTokens" /\ lastSet.input = 2 /\ lastSet.output = 1
    /\ Has("gen_ai.total_tokens", 3)
    /\ {"custom", "top_score"} \subseteq DOMAIN lastSet.before.attributes
    /\ attrStatus = "error" /\ events # <<>>


\* the largest score among the documents of a non-empty context
TopScore(context) ==
    CHOOSE m \in {context[i].score : i \in DOMAIN context} :
        \A i \in DOMAIN context : context[i].score <= m

\* setRetrievedContext of a non-empty array set context_length to the sum of
\* the content lengths and top_score to the largest score
NonEmptyContextSet ==
    (lastSet.op = "setRetrievedContext" /\ lastSet.context # <<>>) =>
        /\ Has("retrieved_context", lastSet.context)
        /\ Has("context_length", ContentLength(lastSet.context))
        /\ Has("top_score", TopScore(lastSet.context))
        /\ ~lastSet.threw

\* C28: setRetrievedContext(docs) of non-empty docs sets context_length to
\* the sum of the documents' content lengths and top_score to the maximum
\* score; for an empty array the call raises an error instead of writing a
\* top_score.
C28_RetrievedContext ==
    /\ NonEmptyContextSet
    /\ (lastSet.op = "setRetrievedContext" /\ lastSet.context = <<>>) =>
        /\ lastSet.threw
        /\ "top_score" \notin Changed

\* C28 (what holds): the part of C28 about non-empty docs, and for an empty
\* array the call returns with context_length 0 and top_score -Infinity
C28_EmptyContextWritten ==
    /\ NonEmptyContextSet
    /\ (lastSet.op = "setRetrievedContext" /\ lastSet.context = <<>>) =>
        /\ ~lastSet.threw
        /\ Has("context_length", 0)
        /\ Has("top_score", NegInfinity)


\* C30: provided each POST eventually settles and backoff timers fire, no
\* flush makes more than maxRetries + 1 POST attempts, every flush in flight
\* eventually settles, and isFlushing, once true, eventually returns to
\* false.
C30_EveryFlushSettles ==
    /\ [](\A i \in DOMAIN flights : flights[i].posted <= maxRetries + 1)
    /\ [](lastResult.outcome # "none" => lastResult.posted <= maxRetries + 1)
    /\ (isFlushing \/ flights # <<>>) ~> (~isFlushing /\ flights = <<>>)

\* a flush was rejected after maxRetries + 1 = 2 POSTs and released the guard
C30_Witness ==
    /\ lastResult.outcome = "rejected"
    /\ cfgMaxRetries = 1
    /\ lastResult.posted = maxRetries + 1
    /\ lastResult.rejected = maxRetries + 1
    /\ ~isFlushing /\ flights = <<>>

====
